---- MODULE Spec2Model ----
(***************************************************************************)
(* State-machine model of the splitwise backend: the Group and Expense     *)
(* collections (models.js) and the three routes of api/index.js that       *)
(* mutate them (POST /api/group/create, POST /api/group/:groupId/expense,  *)
(* POST /api/expense/:id/markPaid).  Every handler is async; it is cut     *)
(* into one action per await, so that requests interleave exactly where    *)
(* the event loop lets them.                                               *)
(*                                                                         *)
(* Money is counted in hundredths (10000 is 100.00).                       *)
(***************************************************************************)
EXTENDS Integers, Sequences, FiniteSets, TLC

VARIABLES groupsDb, expensesDb, req

vars == <<groupsDb, expensesDb, req>>

----------------------------------------------------------------------------
(* Bounds of the model *)

\* at most this many documents (groups and expenses together) are created
MaxDocs == 3

\* concurrent request slots
Reqs == {"r1", "r2"}

\* the User collection (signup/login are outside the model: it is fixed)
Users == {"u1", "u2"}

\* what the Authorization header can carry: nothing, a token jwt.verify
\* rejects, or a token signed for a user
Tokens == Users \cup {"none", "bad"}

\* the tokens tried on the routes whose handler never reads req.user again
\* (mark-paid) or only stores it (group create)
OneUserTokens == {"u1", "none", "bad"}

\* values of new Date()
Instants == {"t1"}

\* request bodies of POST /api/group/create
GroupBodies ==
  { [name |-> "trip", members |-> <<>>],
    [name |-> "trip", members |-> <<"u2">>],
    [members |-> <<"u1">>],
    [name |-> "trip"] }

\* request bodies of POST /api/group/:groupId/expense
ExpenseBodies ==
  { [label |-> "taxi", amount |-> 10000, date |-> "d0",
     splits |-> << [userId |-> "u1", shareAmount |-> 6000],
                   [userId |-> "u2", shareAmount |-> 4000] >>],
    [label |-> "taxi", amount |-> 10000,
     splits |-> << [userId |-> "u1", shareAmount |-> 4000],
                   [userId |-> "u2", shareAmount |-> 4000] >>],
    [label |-> "taxi", amount |-> 10000, date |-> "d0", paid |-> TRUE,
     splits |-> << [userId |-> "u1", shareAmount |-> 6000, paid |-> TRUE],
                   [userId |-> "u2", shareAmount |-> 4000, paid |-> FALSE] >>],
    [amount |-> 10000, date |-> "d0",
     splits |-> << [userId |-> "u1", shareAmount |-> 10000] >>] }

----------------------------------------------------------------------------
(* HTTP outcomes *)

Ok == 200
Unauthorized == 401
NotFound == 404

\* a request slot with no request in it
Idle == [op |-> "none", pc |-> "idle", user |-> "none", param |-> 0,
         doc |-> <<>>, res |-> 0]

Free(r) == req[r].pc \in {"idle", "done", "threw"}

InFlight(r) == ~Free(r)

\* documents stored, plus the requests admitted that may still store one
Admitted ==
  Len(groupsDb) + Len(expensesDb)
    + Cardinality({q \in Reqs : req[q].pc \in {"groupCreate", "findGroup", "create"}})

\* the handler sent a response: the request object is gone, the slot keeps
\* the route and the status
Respond(q, status) == [Idle EXCEPT !.op = q.op, !.pc = "done", !.res = status]

\* the handler threw inside its async body: no response is sent
Throw(q) == [Idle EXCEPT !.op = q.op, !.pc = "threw"]

----------------------------------------------------------------------------
(* JWT middleware *)

\* auth: no token or a token jwt.verify rejects ends the request with 401;
\* otherwise req.user is the user the token names and the handler runs
Auth(r, op, token, param, first) ==
  req' = [req EXCEPT ![r] =
            IF token \in {"none", "bad"}
            THEN Respond([Idle EXCEPT !.op = op], Unauthorized)
            ELSE [op |-> op, pc |-> first, user |-> token, param |-> param,
                  doc |-> <<>>, res |-> 0]]

----------------------------------------------------------------------------
(* Schemas *)

\* groupSchema: name is required, nothing else is validated
GroupValid(body) == "name" \in DOMAIN body

\* a splits subdocument after casting: paid defaults to false
CastSplit(s) ==
  [userId |-> s.userId, shareAmount |-> s.shareAmount,
   paid |-> IF "paid" \in DOMAIN s THEN s.paid ELSE FALSE]

\* the splits array after casting: a missing array is the empty array
CastSplits(body) ==
  IF "splits" \in DOMAIN body
  THEN [i \in 1..Len(body.splits) |-> CastSplit(body.splits[i])]
  ELSE <<>>

\* expenseSchema: label and amount are required, nothing else is validated
ExpenseValid(body) == "label" \in DOMAIN body /\ "amount" \in DOMAIN body

----------------------------------------------------------------------------
(* POST /api/group/create *)

GroupCreateRecv(r) ==
  /\ Free(r)
  /\ Admitted < MaxDocs
  /\ \E token \in OneUserTokens : Auth(r, "groupCreate", token, 0, "groupCreate")
  /\ UNCHANGED <<groupsDb, expensesDb>>

\* NewGroup with the requester left out of members
NewGroup_NoCreator(user, body) ==
  [name |-> body.name, createdBy |-> user,
   members |-> body.members, expenses |-> <<>>]

\* the document Group.create stores: the requester first, then body.members
NewGroup(user, body) ==
  [name |-> body.name, createdBy |-> user,
   members |-> <<user>> \o body.members, expenses |-> <<>>]

\* await Group.create({name, createdBy, members: [req.user._id, ...members]})
GroupCreate(r) ==
  /\ req[r].pc = "groupCreate"
  /\ \E body \in GroupBodies :
       IF "members" \in DOMAIN body /\ GroupValid(body)
       THEN /\ groupsDb' = Append(groupsDb, NewGroup(req[r].user, body))
            /\ req' = [req EXCEPT ![r] = Respond(@, Ok)]
       ELSE \* spreading undefined, or a ValidationError: the handler throws
            /\ groupsDb' = groupsDb
            /\ req' = [req EXCEPT ![r] = Throw(@)]
  /\ UNCHANGED expensesDb

----------------------------------------------------------------------------
(* POST /api/group/:groupId/expense *)

AddExpenseRecv(r) ==
  /\ Free(r)
  /\ Admitted < MaxDocs
  /\ \E token \in Tokens, groupId \in 1..MaxDocs :
       Auth(r, "addExpense", token, groupId, "findGroup")
  /\ UNCHANGED <<groupsDb, expensesDb>>

\* AddExpenseFindGroup without the null check: group._id on null throws
AddExpenseFindGroup_NoCheck(r) ==
  /\ req[r].op = "addExpense" /\ req[r].pc = "findGroup"
  /\ req' = [req EXCEPT ![r] =
               IF req[r].param \in DOMAIN groupsDb
               THEN [@ EXCEPT !.pc = "create",
                              !.doc = <<[_id |-> req[r].param,
                                         expenses |-> groupsDb[req[r].param].expenses]>>]
               ELSE Throw(@)]
  /\ UNCHANGED <<groupsDb, expensesDb>>

\* const group = await Group.findById(req.params.groupId);
\* if (!group) return res.status(404)
AddExpenseFindGroup(r) ==
  /\ req[r].op = "addExpense" /\ req[r].pc = "findGroup"
  /\ req' = [req EXCEPT ![r] =
               IF req[r].param \in DOMAIN groupsDb
               THEN [@ EXCEPT !.pc = "create",
                              !.doc = <<[_id |-> req[r].param,
                                         expenses |-> groupsDb[req[r].param].expenses]>>]
               ELSE Respond(@, NotFound)]
  /\ UNCHANGED <<groupsDb, expensesDb>>

\* the document Expense.create stores for a request body
NewExpense(body, group, now) ==
  [label |-> body.label, amount |-> body.amount,
   date |-> IF "date" \in DOMAIN body THEN body.date ELSE now,
   group |-> group, splits |-> CastSplits(body), paid |-> FALSE]

\* const expense = await Expense.create({...}); group.expenses.push(expense._id)
AddExpenseCreate(r) ==
  /\ req[r].op = "addExpense" /\ req[r].pc = "create"
  /\ \E body \in ExpenseBodies, now \in Instants :
       IF ExpenseValid(body)
       THEN /\ expensesDb' = Append(expensesDb, NewExpense(body, req[r].doc[1]._id, now))
            /\ req' = [req EXCEPT ![r] =
                         [@ EXCEPT !.pc = "save",
                                   !.doc = <<[_id |-> req[r].doc[1]._id,
                                              expenses |-> Append(req[r].doc[1].expenses,
                                                                  Len(expensesDb) + 1)]>>]]
       ELSE \* ValidationError: the handler throws, nothing is stored
            /\ expensesDb' = expensesDb
            /\ req' = [req EXCEPT ![r] = Throw(@)]
  /\ UNCHANGED groupsDb

\* SaveGroup writing the whole loaded array back (last write wins)
SaveGroup_Overwrite(db, group) ==
  [db EXCEPT ![group._id].expenses = group.expenses]

\* group.save() after expenses.push(id): mongoose sends the array's atomic
\* delta, {$push: {expenses: {$each: [id]}}}, not the loaded array
SaveGroup(db, group) ==
  [db EXCEPT ![group._id].expenses = Append(@, group.expenses[Len(group.expenses)])]

\* await group.save(); res.json(expense)
AddExpenseSave(r) ==
  /\ req[r].op = "addExpense" /\ req[r].pc = "save"
  /\ groupsDb' = SaveGroup(groupsDb, req[r].doc[1])
  /\ req' = [req EXCEPT ![r] = Respond(@, Ok)]
  /\ UNCHANGED expensesDb

----------------------------------------------------------------------------
(* POST /api/expense/:id/markPaid *)

MarkPaidRecv(r) ==
  /\ Free(r)
  /\ \E token \in OneUserTokens, id \in 1..MaxDocs :
       Auth(r, "markPaid", token, id, "find")
  /\ UNCHANGED <<groupsDb, expensesDb>>

\* const expense = await Expense.findById(req.params.id);
\* if (!expense) return res.status(404); expense.paid = true
MarkPaidFind(r) ==
  /\ req[r].op = "markPaid" /\ req[r].pc = "find"
  /\ req' = [req EXCEPT ![r] =
               IF req[r].param \in DOMAIN expensesDb
               THEN [@ EXCEPT !.pc = "save",
                              !.doc = <<[_id |-> req[r].param, paid |-> TRUE]>>]
               ELSE Respond(@, NotFound)]
  /\ UNCHANGED <<groupsDb, expensesDb>>

\* SaveExpense flipping the stored flag instead of setting it
SaveExpense_Toggle(db, expense) ==
  [db EXCEPT ![expense._id].paid = ~@]

\* expense.save() after expense.paid = true: the modified path paid is set
SaveExpense(db, expense) ==
  [db EXCEPT ![expense._id].paid = expense.paid]

\* await expense.save(); res.json({message})
MarkPaidSave(r) ==
  /\ req[r].op = "markPaid" /\ req[r].pc = "save"
  /\ expensesDb' = SaveExpense(expensesDb, req[r].doc[1])
  /\ req' = [req EXCEPT ![r] = Respond(@, Ok)]
  /\ UNCHANGED groupsDb

----------------------------------------------------------------------------
(* Specification *)

Init ==
  /\ groupsDb = <<>>
  /\ expensesDb = <<>>
  /\ req = [r \in Reqs |-> Idle]

Next ==
  \E r \in Reqs :
    \/ GroupCreateRecv(r)
    \/ GroupCreate(r)
    \/ AddExpenseRecv(r)
    \/ AddExpenseFindGroup(r)
    \/ AddExpenseCreate(r)
    \/ AddExpenseSave(r)
    \/ MarkPaidRecv(r)
    \/ MarkPaidFind(r)
    \/ MarkPaidSave(r)

Spec == Init /\ [][Next]_vars

----------------------------------------------------------------------------
(* Derived quantities *)

Range(f) == {f[i] : i \in DOMAIN f}

RECURSIVE SumShares(_, _)
\* the sum of shareAmount over the splits i of the sequence with keep[i]
SumShares(splits, keep) ==
  IF splits = <<>> THEN 0
  ELSE (IF keep[1] THEN splits[1].shareAmount ELSE 0)
       + SumShares(Tail(splits), Tail(keep))

AllSplits(e) == [i \in DOMAIN e.splits |-> TRUE]
PaidSplits(e) == [i \in DOMAIN e.splits |-> e.splits[i].paid]
UnpaidSplitsOf(e, m) ==
  [i \in DOMAIN e.splits |-> ~e.splits[i].paid /\ e.splits[i].userId = m]

Abs(x) == IF x < 0 THEN -x ELSE x

\* rounding tolerance: 0.01, in hundredths
Tolerance == 1

\* an expense's contribution to member m's net balance: the payer (the
\* group's creator) is credited the amount less the shares already paid,
\* and m is debited each of its unpaid shares
Contribution(g, e, m) ==
  (IF m = groupsDb[g].createdBy
   THEN e.amount - SumShares(e.splits, PaidSplits(e)) ELSE 0)
  - SumShares(e.splits, UnpaidSplitsOf(e, m))

RECURSIVE BalanceOver(_, _, _)
BalanceOver(g, ids, m) ==
  IF ids = <<>> THEN 0
  ELSE Contribution(g, expensesDb[ids[1]], m) + BalanceOver(g, Tail(ids), m)

\* member id -> signed net amount, over exactly the group's member ids
computeBalances(g) ==
  [m \in Range(groupsDb[g].members) |-> BalanceOver(g, groupsDb[g].expenses, m)]

RECURSIVE SumOver(_, _)
SumOver(f, S) ==
  IF S = {} THEN 0
  ELSE LET x == CHOOSE y \in S : TRUE IN f[x] + SumOver(f, S \ {x})

\* request r took a step
Stepped(r) == req'[r] # req[r]

----------------------------------------------------------------------------
(* Claims *)

\* C1: in every reachable state an Expense's overall paid flag is true if
\* and only if every one of its splits has its paid flag true.
C1_PaidIsDerived ==
  \A e \in DOMAIN expensesDb :
    expensesDb[e].paid <=> (\A i \in DOMAIN expensesDb[e].splits :
                              expensesDb[e].splits[i].paid)

\* C2: marking paid is exactly-once: a mark-paid request succeeds only if
\* its target was not already marked paid when it writes; any other
\* request on the same target must not get a success response.
C2_MarkPaidExactlyOnce ==
  [][\A r \in Reqs :
       (req[r].op = "markPaid" /\ req[r].pc = "save" /\ req'[r].res = Ok)
         => ~expensesDb[req[r].param].paid]_vars

\* C3: every stored Expense has splits whose shareAmounts sum to its
\* amount within the tolerance (a request that violates this stores nothing).
C3_SplitsSumToAmount ==
  \A e \in DOMAIN expensesDb :
    Abs(SumShares(expensesDb[e].splits, AllSplits(expensesDb[e]))
        - expensesDb[e].amount) <= Tolerance

\* C4: an add-expense request gets as far as storing an Expense only if
\* the authenticated requester is a member of the target group.
C4_OnlyMembersAddExpenses ==
  \A r \in Reqs :
    (req[r].op = "addExpense" /\ req[r].pc = "save")
      => req[r].user \in Range(groupsDb[req[r].param].members)

\* C5: every Expense a successful add-expense stores has every split's paid
\* flag false and the overall paid flag false, whatever the body supplied.
C5_NewExpenseUnpaid ==
  [][Len(expensesDb') > Len(expensesDb)
       => LET e == expensesDb'[Len(expensesDb')]
          IN  ~e.paid /\ \A i \in DOMAIN e.splits : ~e.splits[i].paid]_vars

\* C6: in every reachable state, for every group, the net balances of the
\* group's members sum to zero within the tolerance.
C6_BalancesSumToZero ==
  \A g \in DOMAIN groupsDb :
    Abs(SumOver(computeBalances(g), Range(groupsDb[g].members))) <= Tolerance

\* C7: in every reachable state every Group's creator is one of its
\* members, and no step changes the members list of an existing Group.
C7_CreatorIsMember ==
  /\ [](\A g \in DOMAIN groupsDb :
          groupsDb[g].createdBy \in Range(groupsDb[g].members))
  /\ [][\A g \in DOMAIN groupsDb :
          /\ g \in DOMAIN groupsDb'
          /\ groupsDb'[g].members = groupsDb[g].members
          /\ groupsDb'[g].createdBy = groupsDb[g].createdBy]_vars

\* C7 witness: a group with a second member has been saved again by an
\* add-expense request.
C7_Witness ==
  \E g \in DOMAIN groupsDb :
    Len(groupsDb[g].members) > 1 /\ Len(groupsDb[g].expenses) > 0

\* C8: paid flags only ever go from false to true, and a step of a
\* mark-paid request changes nothing of any stored Expense but the overall
\* paid flag of its target, and changes no Group.
C8_PaidMonotonicFrame ==
  [][/\ \A e \in DOMAIN expensesDb :
          /\ e \in DOMAIN expensesDb'
          /\ expensesDb[e].paid => expensesDb'[e].paid
          /\ \A i \in DOMAIN expensesDb[e].splits :
                expensesDb[e].splits[i].paid => expensesDb'[e].splits[i].paid
     /\ \A r \in Reqs :
          (req[r].op = "markPaid" /\ InFlight(r) /\ Stepped(r))
            => /\ groupsDb' = groupsDb
               /\ DOMAIN expensesDb' = DOMAIN expensesDb
               /\ \A e \in DOMAIN expensesDb :
                    /\ [expensesDb'[e] EXCEPT !.paid = FALSE]
                         = [expensesDb[e] EXCEPT !.paid = FALSE]
                    /\ e # req[r].param => expensesDb'[e] = expensesDb[e]]_vars

\* C8 witness: a mark-paid request has set the flag of one of two stored
\* expenses and the other is still unpaid.
C8_Witness ==
  \E e, f \in DOMAIN expensesDb :
    /\ expensesDb[e].paid /\ ~expensesDb[f].paid
    /\ \E r \in Reqs : req[r].op = "markPaid" /\ req[r].res = Ok

Pending(e) ==
  {r \in Reqs : /\ req[r].op = "addExpense" /\ req[r].pc = "save"
                /\ req[r].doc[1].expenses[Len(req[r].doc[1].expenses)] = e}

Occurrences(seq, x) == Cardinality({i \in DOMAIN seq : seq[i] = x})

\* C10: under any interleaving, every stored Expense of group G is in
\* G.expenses exactly once, or is about to be pushed by the one request
\* that created it; every id in G.expenses is a stored Expense of G.  With
\* no request in flight, the two lists agree exactly.
C10_OwnershipConsistent ==
  /\ \A e \in DOMAIN expensesDb :
       LET g == expensesDb[e].group
       IN  /\ g \in DOMAIN groupsDb
           /\ Occurrences(groupsDb[g].expenses, e) + Cardinality(Pending(e)) = 1
  /\ \A g \in DOMAIN groupsDb :
       \A i \in DOMAIN groupsDb[g].expenses :
         /\ groupsDb[g].expenses[i] \in DOMAIN expensesDb
         /\ expensesDb[groupsDb[g].expenses[i]].group = g

\* C10 witness: two add-expense requests for the same group overlap: both
\* loaded the group while its list was empty, both have stored their
\* expense, and neither has saved the group yet.
C10_Witness ==
  \E r, q \in Reqs :
    /\ r # q
    /\ req[r].op = "addExpense" /\ req[r].pc = "save"
    /\ req[q].op = "addExpense" /\ req[q].pc = "save"
    /\ req[r].doc[1]._id = req[q].doc[1]._id
    /\ Len(req[r].doc[1].expenses) = 1 /\ Len(req[q].doc[1].expenses) = 1

====
